---- MODULE Spec2Model ----
(***************************************************************************)
(* gobble: a wget-like downloader (src/gobble.go).                         *)
(*                                                                         *)
(* The model follows one run of main(): flag handling, URL normalisation,  *)
(* the HTTP GET, output-file resolution (openOutfile), the chunked copy    *)
(* loop (copyContent), the progress reporter (statusString) and process    *)
(* exit, with the deferred Close calls of main.  A second party that may   *)
(* create the output file while openOutfile runs is part of the            *)
(* environment.                                                            *)
(*                                                                         *)
(* Strings are sequences of one-character strings, so that prefix tests,   *)
(* URL parsing and filepath.Base are computed and not assumed.             *)
(***************************************************************************)
EXTENDS Integers, Sequences, FiniteSets, TLC

\* ------------------------------------------------------------------ bounds
MaxLen == 4        \* longest response body, in bytes
MaxChunk == 3      \* largest chunk size numBytes explored

\* ------------------------------------------------------- program constants
ProgressBarLen == 35   \* len(progressBar)

\* ----------------------------------------------------------------- strings
HTTP == <<"h", "t", "t", "p", ":", "/", "/">>
HTTPS == <<"h", "t", "t", "p", "s", ":", "/", "/">>
IndexHtml == <<"i", "n", "d", "e", "x", ".", "h", "t", "m", "l">>
CustomName == <<"o">>

\* the -u arguments explored
Targets ==
  { <<>>,
    <<"a", "/", "f">>,
    HTTP \o <<"a", "/", "f">>,
    HTTP \o <<"a">>,
    <<"a", "/">>,
    <<"a", "/", "d", "/">>,
    HTTPS \o <<"a", "/", "f">>,
    <<"a", "/", "f", "?", "q">>,
    <<"a", " ", "b">> }

\* the -o arguments explored ("" means: derive the name from the URL)
OutNames == { <<>>, CustomName }

\* content of a file that exists before the run, and of a file the other
\* party creates
OldContent == <<9>>
OtherContent == <<8>>

\* the file names the explored flags resolve to
FileNames == { <<"f">>, <<"d">>, CustomName, IndexHtml }

Absent == [exists |-> FALSE, content |-> <<>>]
File(content) == [exists |-> TRUE, content |-> content]

\* file systems the run may start in: empty, or one pre-existing file
InitialFileSystems ==
  { [x \in FileNames |-> Absent] } \cup
  { [x \in FileNames |-> IF x = nm THEN File(OldContent) ELSE Absent] :
      nm \in { <<"f">>, CustomName, IndexHtml } }

\* --------------------------------------------------------- string helpers
HasPrefix(s, p) ==
  /\ Len(s) >= Len(p)
  /\ SubSeq(s, 1, Len(p)) = p

\* index of the first c in s, 0 if there is none
Index(s, c) ==
  IF \E i \in 1..Len(s) : s[i] = c
  THEN CHOOSE i \in 1..Len(s) : s[i] = c /\ \A j \in 1..(i - 1) : s[j] # c
  ELSE 0

\* index of the last c in s, 0 if there is none
LastIndex(s, c) ==
  IF \E i \in 1..Len(s) : s[i] = c
  THEN CHOOSE i \in 1..Len(s) : s[i] = c /\ \A j \in (i + 1)..Len(s) : s[j] # c
  ELSE 0

Drop(s, k) == SubSeq(s, k + 1, Len(s))
Take(s, k) == SubSeq(s, 1, k)

RECURSIVE TrimTrailingSlashes(_)
TrimTrailingSlashes(s) ==
  IF Len(s) > 0 /\ s[Len(s)] = "/" THEN TrimTrailingSlashes(Take(s, Len(s) - 1))
  ELSE s

Letters == {"a", "b", "d", "f", "h", "o", "p", "q", "s", "t"}

\* ------------------------------------------------------------- net/url
\* url.Parse's getScheme: [ok, scheme, rest]
RECURSIVE GetScheme(_, _)
GetScheme(u, i) ==
  IF i > Len(u) THEN [ok |-> TRUE, scheme |-> <<>>, rest |-> u]
  ELSE IF u[i] \in Letters THEN GetScheme(u, i + 1)
  ELSE IF u[i] = "." THEN
    IF i = 1 THEN [ok |-> TRUE, scheme |-> <<>>, rest |-> u]
    ELSE GetScheme(u, i + 1)
  ELSE IF u[i] = ":" THEN
    IF i = 1 THEN [ok |-> FALSE, scheme |-> <<>>, rest |-> u]
    ELSE [ok |-> TRUE, scheme |-> Take(u, i - 1), rest |-> Drop(u, i)]
  ELSE [ok |-> TRUE, scheme |-> <<>>, rest |-> u]

\* the part of rest before the query
CutQuery(rest) ==
  IF Index(rest, "?") = 0 THEN rest ELSE Take(rest, Index(rest, "?") - 1)

\* url.Parse(u): [ok, Path].  A host may not hold a space; a relative
\* reference may not hold a colon in its first segment.
UrlParse(u) ==
  LET g == GetScheme(u, 1)
      rest == CutQuery(g.rest)
      hasAuth == HasPrefix(rest, <<"/", "/">>)
      afterSl == Drop(rest, 2)
      cut == Index(afterSl, "/")
      authority == IF cut = 0 THEN afterSl ELSE Take(afterSl, cut - 1)
      authPath == IF cut = 0 THEN <<>> ELSE Drop(afterSl, cut - 1)
      firstSeg == IF Index(rest, "/") = 0 THEN rest
                  ELSE Take(rest, Index(rest, "/") - 1)
  IN  IF ~g.ok THEN [ok |-> FALSE, Path |-> <<>>]
      ELSE IF ~HasPrefix(rest, <<"/">>) THEN
        IF g.scheme # <<>> THEN [ok |-> TRUE, Path |-> <<>>]
        ELSE IF Index(firstSeg, ":") # 0 THEN [ok |-> FALSE, Path |-> <<>>]
        ELSE [ok |-> TRUE, Path |-> rest]
      ELSE IF hasAuth THEN
        IF Index(authority, " ") # 0 THEN [ok |-> FALSE, Path |-> <<>>]
        ELSE [ok |-> TRUE, Path |-> authPath]
      ELSE [ok |-> TRUE, Path |-> rest]

\* ------------------------------------------------------- path/filepath
\* filepath.Base(path)
Base(path) ==
  LET t == TrimTrailingSlashes(path)
      b == Drop(t, LastIndex(t, "/"))
  IN  IF path = <<>> THEN <<".">>
      ELSE IF b = <<>> THEN <<"/">>
      ELSE b

\* ---------------------------------------------------------- gobble.go
\* normalizeURLTarget(urlTarget)
normalizeURLTarget(t) ==
  IF ~HasPrefix(t, HTTP) THEN HTTP \o t ELSE t

\* openOutfile's name resolution: [ok, fileName]
ResolveName(outName, u) ==
  IF outName # <<>> THEN [ok |-> TRUE, fileName |-> outName]
  ELSE LET p == UrlParse(u)
           b == Base(p.Path)
       IN  IF ~p.ok THEN [ok |-> FALSE, fileName |-> <<>>]
           ELSE IF b = <<".">> \/ b = <<"/">>
             THEN [ok |-> TRUE, fileName |-> IndexHtml]
           ELSE [ok |-> TRUE, fileName |-> b]

\* a variant of StatBails that never bails
StatBails_Never(exists) == FALSE

\* the test of line 148: openOutfile bails when os.Stat finds the name
StatBails(exists) == exists

\* io.ReadFull(body, buffer) on the unread part of the body: the buffer is
\* filled completely, or the stream ends first (io.EOF after no byte,
\* io.ErrUnexpectedEOF after some), the bytes read overwriting its head
ReadFull(unread, buf) ==
  IF Len(unread) >= Len(buf) THEN
    [n |-> Len(buf), err |-> "nil", buf |-> Take(unread, Len(buf)),
     unread |-> Drop(unread, Len(buf))]
  ELSE IF Len(unread) = 0 THEN
    [n |-> 0, err |-> "EOF", buf |-> buf, unread |-> unread]
  ELSE
    [n |-> Len(unread), err |-> "ErrUnexpectedEOF",
     buf |-> unread \o Drop(buf, Len(unread)), unread |-> <<>>]

\* what a read of the loop may return: ReadFull's result, or a transport
\* error (no byte delivered by the failing read)
ReadOutcomes(unread, buf) ==
  { ReadFull(unread, buf),
    [n |-> 0, err |-> "ErrRead", buf |-> buf, unread |-> unread] }

\* file.Write(content) in bufWrite, file an *os.File: all of content is
\* written and err is nil, or fewer bytes are written and err is non-nil
\* (io.ErrShortWrite, or the system call's error)
FileWrite(content) ==
  { [nOut |-> Len(content), err |-> "nil"] } \cup
  { [nOut |-> k, err |-> e] :
      k \in 0..(Len(content) - 1), e \in {"ErrShortWrite", "PathError"} }

\* a variant of FinalContent that writes the whole buffer
FinalContent_WholeBuffer(buf, k) == buf

\* the slice written after the loop, line 112: buffer[:n]
FinalContent(buf, k) == Take(buf, k)

\* a variant of FinalResult that drops the error of the final write
FinalResult_IgnoreErr(w, total, k) == <<total + k, "nil">>

\* copyContent's return values after the final write, lines 113-118
FinalResult(w, total, k) ==
  IF w.err # "nil" THEN <<0, w.err>> ELSE <<total + k, "nil">>

\* variants of PrintsStatus: status lines always, and never
PrintsStatus_Always(wantStdout) == TRUE
PrintsStatus_Never(wantStdout) == FALSE

\* line 106 and line 72: status lines are printed unless -s was given
PrintsStatus(wantStdout) == ~wantStdout

\* statusString's percentage, line 187, in tenths of a percent as %2.1f
\* prints it.  tag is "pct" for a number, "NaN" for 0/0, "Inf" for x/0.
Percentage(b, t) ==
  IF t = 0 THEN [tag |-> IF b = 0 THEN "NaN" ELSE "Inf", pct |-> 0]
  ELSE [tag |-> "pct", pct |-> (b * 1000) \div t]

\* statusString(bytesRead, totalBytes, allDone): the line it returns, or a
\* run-time panic when the slice bound 2+int(percentage/4) of line 189 is
\* outside progressBar.  int() of NaN is implementation-specific: the
\* smallest integer (the slice panics) or 0 (the line shows NaN%); int() of
\* +Inf is out of range either way.
statusString(b, t, allDone) ==
  LET p == Percentage(b, t)
      hi == 2 + (b * 25) \div t
      kind == IF allDone THEN "finished" ELSE "progress"
  IN  IF t = -1 THEN
        { [panic |-> FALSE, kind |-> kind, tag |-> "unknown", pct |-> 0, bytes |-> b] }
      ELSE IF p.tag = "Inf" THEN
        { [panic |-> TRUE, kind |-> kind, tag |-> "Inf", pct |-> 0, bytes |-> b] }
      ELSE IF p.tag = "NaN" THEN
        { [panic |-> x, kind |-> kind, tag |-> "NaN", pct |-> 0, bytes |-> b] :
            x \in BOOLEAN }
      ELSE
        { [panic |-> hi > ProgressBarLen, kind |-> kind, tag |-> "pct",
           pct |-> p.pct, bytes |-> b] }

\* ------------------------------------------------------------------ state
VARIABLES
  urlTarget,     \* flag -u
  outFileName,   \* flag -o
  toStdout,      \* flag -s
  numBytes,      \* chunk size
  body,          \* the bytes the server delivers
  totalBytes,    \* resp.ContentLength, -1 when unknown
  pc,            \* position of the run in main / copyContent
  url,           \* main's url
  fileName,      \* openOutfile's fileName
  fs,            \* the file system: name -> [exists, content]
  fsAtCall,      \* fs when openOutfile was called
  otherAt,       \* when the other party created fileName ("none" if never)
  bodyState,     \* resp.Body: "none", "open", "closed"
  fileState,     \* the output file handle: "none", "open", "closed"
  unread,        \* part of body not yet read
  buffer, n, bytesRead,   \* copyContent's locals
  ret,           \* <<count, err>> returned by copyContent
  stdout,        \* what was written to standard output, in order
  events,        \* writes and status lines of the run, in order
  exitKind,      \* "running", "ok", "usage", "fatal", "panic"
  fatalSite      \* source line of the log.Fatal that ended the run, else 0

vars ==
  << urlTarget, outFileName, toStdout, numBytes, body, totalBytes, pc, url,
     fileName, fs, fsAtCall, otherAt, bodyState, fileState, unread, buffer, n,
     bytesRead, ret, stdout, events, exitKind, fatalSite >>

flags == << urlTarget, outFileName, toStdout, numBytes, body, totalBytes >>
copyLocals == << unread, buffer, n, bytesRead, ret >>

Bytes(content) == [i \in 1..Len(content) |-> [t |-> "byte", v |-> content[i]]]
Text(kind) == << [t |-> kind, v |-> 0] >>
WriteEvent(len, w) ==
  [k |-> "write", len |-> len, nOut |-> w.nOut, err |-> w.err, tag |-> "", pct |-> 0]
ReadEvent(r) ==
  [k |-> "read", len |-> r.n, nOut |-> 0, err |-> r.err, tag |-> "", pct |-> 0]
StatusEvent(st) ==
  [k |-> st.kind, len |-> 0, nOut |-> st.bytes, err |-> "", tag |-> st.tag, pct |-> st.pct]

\* the body of length len: bytes 1, 2, ..., len
BodyOf(len) == [i \in 1..len |-> i]

Init ==
  /\ urlTarget \in Targets
  /\ outFileName \in OutNames
  /\ toStdout \in BOOLEAN
  /\ numBytes \in 1..MaxChunk
  /\ body \in { BodyOf(len) : len \in 0..MaxLen }
  \* a response with a Content-Length never delivers more than it declares
  /\ totalBytes \in {-1, Len(body), Len(body) + 1}
  /\ fs \in InitialFileSystems
  /\ fsAtCall = fs
  /\ otherAt = "none"
  /\ pc = "start"
  /\ url = <<>>
  /\ fileName = <<>>
  /\ bodyState = "none"
  /\ fileState = "none"
  /\ unread = body
  /\ buffer = <<>>
  /\ n = 0
  /\ bytesRead = 0
  /\ ret = <<0, "nil">>
  /\ stdout = <<>>
  /\ events = <<>>
  /\ exitKind = "running"
  /\ fatalSite = 0

\* ---------------------------------------------------------------- exits
\* log.Fatal at the given line: os.Exit(1), deferred calls do not run
Fatal(site) ==
  /\ pc' = "exited"
  /\ exitKind' = "fatal"
  /\ fatalSite' = site
  /\ UNCHANGED << bodyState, fileState >>

\* the deferred calls of main, lines 53 and 62: what was opened is closed
RunDefers ==
  /\ bodyState' = IF bodyState = "open" THEN "closed" ELSE bodyState
  /\ fileState' = IF fileState = "open" THEN "closed" ELSE fileState

\* a run-time panic unwinds main (the deferred calls run), then exit status 2
Panic ==
  /\ pc' = "exited"
  /\ exitKind' = "panic"
  /\ fatalSite' = 0
  /\ RunDefers

\* ------------------------------------------------------------------ main
\* lines 41-45: flag.Parse, usage() when -u is missing, normalizeURLTarget
Main_Start ==
  /\ pc = "start"
  /\ IF urlTarget = <<>>
     THEN /\ stdout' = stdout \o Text("usage")
          /\ pc' = "exited"
          /\ exitKind' = "usage"
          /\ url' = url
     ELSE /\ url' = normalizeURLTarget(urlTarget)
          /\ pc' = "get"
          /\ UNCHANGED << stdout, exitKind >>
  /\ UNCHANGED << flags, fileName, fs, fsAtCall, otherAt, bodyState, fileState,
                  copyLocals, events, fatalSite >>

\* lines 48-53, the GET succeeds: resp.Body is open, its Close is deferred.
\* client.Get parses the URL itself, so it cannot succeed on one that
\* url.Parse rejects.
Main_GetOk ==
  /\ pc = "get"
  /\ UrlParse(url).ok
  /\ bodyState' = "open"
  /\ pc' = IF toStdout THEN "copy_start" ELSE "open_call"
  /\ UNCHANGED << flags, url, fileName, fs, fsAtCall, otherAt, fileState,
                  copyLocals, stdout, events, exitKind, fatalSite >>

\* lines 49-52, the GET fails: log.Fatal
Main_GetFail ==
  /\ pc = "get"
  /\ Fatal(51)
  /\ UNCHANGED << flags, url, fileName, fs, fsAtCall, otherAt, copyLocals,
                  stdout, events >>

\* ----------------------------------------------------------- openOutfile
\* lines 134-145: the file name is resolved; a URL that does not parse is
\* returned as an error, which main makes fatal at line 60
OpenOutfile_Resolve ==
  /\ pc = "open_call"
  /\ fsAtCall' = fs
  /\ LET r == ResolveName(outFileName, url)
     IN  IF r.ok
         THEN /\ fileName' = r.fileName
              /\ pc' = "open_stat"
              /\ UNCHANGED << bodyState, fileState, exitKind, fatalSite >>
         ELSE /\ fileName' = fileName
              /\ Fatal(60)
  /\ UNCHANGED << flags, url, fs, otherAt, copyLocals, stdout, events >>

\* lines 147-150: os.Stat; if the name exists openOutfile returns an error,
\* fatal in main at line 60
OpenOutfile_Stat ==
  /\ pc = "open_stat"
  /\ IF StatBails(fs[fileName].exists)
     THEN Fatal(60)
     ELSE /\ pc' = "open_create"
          /\ UNCHANGED << bodyState, fileState, exitKind, fatalSite >>
  /\ UNCHANGED << flags, url, fileName, fs, fsAtCall, otherAt, copyLocals,
                  stdout, events >>

\* lines 152-157, os.Create succeeds: the file is created, or truncated if
\* it exists by now (O_CREATE|O_TRUNC); main defers its Close (line 62)
OpenOutfile_Create ==
  /\ pc = "open_create"
  /\ fs' = [fs EXCEPT ![fileName] = File(<<>>)]
  /\ fileState' = "open"
  /\ pc' = "print_info"
  /\ UNCHANGED << flags, url, fileName, fsAtCall, otherAt, bodyState,
                  copyLocals, stdout, events, exitKind, fatalSite >>

\* lines 152-155, os.Create fails (permissions, ...): fatal at line 60
OpenOutfile_CreateFail ==
  /\ pc = "open_create"
  /\ Fatal(60)
  /\ UNCHANGED << flags, url, fileName, fs, fsAtCall, otherAt, copyLocals,
                  stdout, events >>

\* another process creates the name openOutfile resolved, while openOutfile
\* is between its call and its os.Create
Other_Create ==
  /\ pc \in {"open_stat", "open_create"}
  /\ otherAt = "none"
  /\ ~fs[fileName].exists
  /\ fs' = [fs EXCEPT ![fileName] = File(OtherContent)]
  /\ otherAt' = IF pc = "open_stat" THEN "before_stat" ELSE "before_create"
  /\ UNCHANGED << flags, pc, url, fileName, fsAtCall, bodyState, fileState,
                  copyLocals, stdout, events, exitKind, fatalSite >>

\* line 63, printInfo: the banner and the connection diagnostics
Main_PrintInfo ==
  /\ pc = "print_info"
  /\ stdout' = IF UrlParse(url).ok
               THEN stdout \o Text("banner") \o Text("diagnostics")
               ELSE stdout \o Text("banner")
  /\ pc' = "copy_start"
  /\ UNCHANGED << flags, url, fileName, fs, fsAtCall, otherAt, bodyState,
                  fileState, copyLocals, events, exitKind, fatalSite >>

\* ----------------------------------------------------------- copyContent
\* the destination after `content` was written to it: standard output
\* under -s, the output file otherwise
StdoutAfter(content) == IF toStdout THEN stdout \o Bytes(content) ELSE stdout
FsAfter(content) ==
  IF toStdout THEN fs
  ELSE [fs EXCEPT ![fileName] = File(fs[fileName].content \o content)]

\* lines 82-84: the buffer of numBytes zero bytes, the counters
Copy_Start ==
  /\ pc = "copy_start"
  /\ buffer' = [i \in 1..numBytes |-> 0]
  /\ bytesRead' = 0
  /\ n' = 0
  /\ pc' = "copy_read"
  /\ UNCHANGED << flags, url, fileName, fs, fsAtCall, otherAt, bodyState,
                  fileState, unread, ret, stdout, events, exitKind, fatalSite >>

\* lines 86-95: one io.ReadFull; end of stream leaves the loop, any other
\* error returns (0, err)
Copy_Read ==
  /\ pc = "copy_read"
  /\ \E r \in ReadOutcomes(unread, buffer) :
       /\ n' = r.n
       /\ buffer' = r.buf
       /\ unread' = r.unread
       /\ events' = Append(events, ReadEvent(r))
       /\ IF r.err = "nil" THEN pc' = "copy_write" /\ ret' = ret
          ELSE IF r.err \in {"EOF", "ErrUnexpectedEOF"}
            THEN pc' = "copy_final" /\ ret' = ret
          ELSE pc' = "copy_ret" /\ ret' = <<0, r.err>>
  /\ UNCHANGED << flags, url, fileName, fs, fsAtCall, otherAt, bodyState,
                  fileState, bytesRead, stdout, exitKind, fatalSite >>

\* lines 97-108: the full buffer is written; a write error is fatal (line
\* 100), a byte count other than n returns an error (line 102); otherwise
\* the count advances and, unless -s was given, a status line is printed
Copy_Write ==
  /\ pc = "copy_write"
  /\ \E w \in FileWrite(buffer) :
     \E st \in statusString(bytesRead + n, totalBytes, FALSE) :
       LET wrote == Take(buffer, w.nOut)
           ev == Append(events, WriteEvent(Len(buffer), w))
           good == w.err = "nil" /\ w.nOut = n
           prints == good /\ PrintsStatus(toStdout)
       IN  /\ fs' = FsAfter(wrote)
           /\ IF w.err # "nil" THEN
                /\ Fatal(100)
                /\ stdout' = StdoutAfter(wrote)
                /\ events' = ev
                /\ UNCHANGED << bytesRead, ret >>
              ELSE IF w.nOut # n THEN
                /\ ret' = <<0, "ErrCount">>
                /\ pc' = "copy_ret"
                /\ stdout' = StdoutAfter(wrote)
                /\ events' = ev
                /\ UNCHANGED << bytesRead, bodyState, fileState, exitKind,
                                fatalSite >>
              ELSE IF prints /\ st.panic THEN
                /\ Panic
                /\ bytesRead' = bytesRead + n
                /\ stdout' = StdoutAfter(wrote)
                /\ events' = ev
                /\ ret' = ret
              ELSE
                /\ bytesRead' = bytesRead + n
                /\ pc' = "copy_read"
                /\ stdout' = IF prints THEN StdoutAfter(wrote) \o Text(st.kind)
                             ELSE StdoutAfter(wrote)
                /\ events' = IF prints THEN Append(ev, StatusEvent(st)) ELSE ev
                /\ UNCHANGED << ret, bodyState, fileState, exitKind, fatalSite >>
  /\ UNCHANGED << flags, url, fileName, fsAtCall, otherAt, unread, buffer, n >>

\* lines 111-118: what is left, buffer[:n], is written; an error of the
\* write is returned, otherwise the total
Copy_Final ==
  /\ pc = "copy_final"
  /\ \E w \in FileWrite(FinalContent(buffer, n)) :
       LET content == FinalContent(buffer, n)
           wrote == Take(content, w.nOut)
           res == FinalResult(w, bytesRead, n)
       IN  /\ fs' = FsAfter(wrote)
           /\ stdout' = StdoutAfter(wrote)
           /\ events' = Append(events, WriteEvent(Len(content), w))
           /\ ret' = res
           /\ bytesRead' = IF w.err = "nil" THEN bytesRead + n ELSE bytesRead
           /\ pc' = "copy_ret"
  /\ UNCHANGED << flags, url, fileName, fsAtCall, otherAt, bodyState,
                  fileState, unread, buffer, n, exitKind, fatalSite >>

\* lines 67-75: an error of copyContent is fatal (line 69); otherwise the
\* Finished line is printed unless -s was given, and main returns
Main_AfterCopy ==
  /\ pc = "copy_ret"
  /\ \E st \in statusString(ret[1], totalBytes, TRUE) :
       IF ret[2] # "nil" THEN
         /\ Fatal(69)
         /\ UNCHANGED << stdout, events >>
       ELSE IF PrintsStatus(toStdout) /\ st.panic THEN
         /\ Panic
         /\ UNCHANGED << stdout, events >>
       ELSE
         /\ pc' = "exited"
         /\ exitKind' = "ok"
         /\ fatalSite' = 0
         /\ RunDefers
         /\ stdout' = IF PrintsStatus(toStdout) THEN stdout \o Text(st.kind)
                      ELSE stdout
         /\ events' = IF PrintsStatus(toStdout) THEN Append(events, StatusEvent(st))
                      ELSE events
  /\ UNCHANGED << flags, url, fileName, fs, fsAtCall, otherAt, copyLocals >>

Next ==
  \/ Main_Start
  \/ Main_GetOk
  \/ Main_GetFail
  \/ OpenOutfile_Resolve
  \/ OpenOutfile_Stat
  \/ OpenOutfile_Create
  \/ OpenOutfile_CreateFail
  \/ Other_Create
  \/ Main_PrintInfo
  \/ Copy_Start
  \/ Copy_Read
  \/ Copy_Write
  \/ Copy_Final
  \/ Main_AfterCopy

Spec == Init /\ [][Next]_vars

\* ============================================================ properties
EventsOf(kinds) == SelectSeq(events, LAMBDA e : e.k \in kinds)
Writes == EventsOf({"write"})
Reads == EventsOf({"read"})
StatusLines == EventsOf({"progress", "finished"})

\* what the destination holds of this run's writes
IsByte(item) == item.t = "byte"
StdoutBytes == [i \in 1..Len(SelectSeq(stdout, IsByte)) |-> SelectSeq(stdout, IsByte)[i].v]
Written == IF toStdout THEN StdoutBytes ELSE fs[fileName].content

\* no read of the run failed (end of stream is no failure) and no write did
NoError == \A i \in 1..Len(events) : events[i].err \in {"", "nil", "EOF", "ErrUnexpectedEOF"}

Chunks == Len(body) \div numBytes

\* C1: for every chunk size and body, when no read or write fails,
\* copyContent terminates (it reads at most floor(L/C)+1 times), and once it
\* has returned, the bytes written to the destination, in order, are the
\* body, and the count returned is the body's length.
C1_CopyRoundTrip ==
  /\ Len(Reads) <= Chunks + 1
  /\ (pc = "copy_ret" /\ NoError) =>
       /\ Written = body
       /\ ret = <<Len(body), "nil">>
       /\ Len(Reads) = Chunks + 1

C1_Witness ==
  /\ pc = "copy_ret"
  /\ NoError
  /\ numBytes > 1
  /\ Len(body) > numBytes
  /\ Len(body) % numBytes # 0
  /\ Written = body

\* C2: whenever a write of copyContent (a full chunk in the loop, or the
\* final partial chunk) reports a byte count other than the bytes handed to
\* it, that write is the last one of the run, the run does not end in
\* success, and copyContent has failed with the write's error: returned to
\* main (which makes it fatal at line 69), or fatal on the spot (line 100).
ShortWrite(e) == e.nOut # e.len

C2_ShortWriteFails ==
  \A i \in 1..Len(Writes) :
    ShortWrite(Writes[i]) =>
      /\ i = Len(Writes)
      /\ exitKind # "ok"
      /\ \/ pc = "copy_ret" /\ ret = <<0, Writes[i].err>> /\ ret[2] # "nil"
         \/ pc = "exited" /\ exitKind = "fatal" /\ fatalSite \in {69, 100}

C2_Witness ==
  /\ Len(Writes) = 2
  /\ ~ShortWrite(Writes[1])
  /\ ShortWrite(Writes[2])
  /\ Writes[2].len < numBytes
  /\ pc = "exited"
  /\ fatalSite = 69

\* C3: with a declared size >= 0 (0 included) every percentage statusString
\* computes is a number in [0, 100], and the percentages of successive
\* status lines never decrease.
C3_PercentInRange ==
  totalBytes >= 0 =>
    /\ exitKind # "panic"
    /\ \A i \in 1..Len(StatusLines) :
         /\ StatusLines[i].tag = "pct"
         /\ StatusLines[i].pct >= 0
         /\ StatusLines[i].pct <= 1000
    /\ \A i, j \in 1..Len(StatusLines) :
         i < j => StatusLines[i].pct <= StatusLines[j].pct

\* openOutfile has been called and has resolved a name
Resolved == ~toStdout /\ fileName \in FileNames

\* C4: if the resolved name exists when openOutfile is called, openOutfile
\* returns an error (fatal in main, line 60), creates and opens nothing,
\* the file keeps the content it had, and no byte is copied.
C4_ExistingFileKept ==
  (Resolved /\ fsAtCall[fileName].exists) =>
    /\ pc = "open_stat" \/ (pc = "exited" /\ exitKind = "fatal" /\ fatalSite = 60)
    /\ fileState = "none"
    /\ fs = fsAtCall
    /\ Len(Reads) = 0
    /\ Len(Writes) = 0

C4_Witness ==
  /\ Resolved
  /\ fsAtCall[fileName].exists
  /\ pc = "exited"
  /\ fatalSite = 60
  /\ fs[fileName] = File(OldContent)

\* the name the claim describes: the explicit name if given; otherwise
\* index.html for an empty path, the root path or a path ending in "/",
\* and the final path segment for any other path
ClaimedName(outName, u) ==
  LET path == UrlParse(u).Path
  IN  IF outName # <<>> THEN outName
      ELSE IF path = <<>> \/ path[Len(path)] = "/" THEN IndexHtml
      ELSE Drop(path, LastIndex(path, "/"))

\* C5: openOutfile resolves the explicit name as given; otherwise the final
\* path segment of the URL; and index.html when that segment is empty or
\* the path is the root path or ends in "/".
C5_NameResolution ==
  pc = "open_stat" => fileName = ClaimedName(outFileName, url)

\* C6: on every path by which the program stops after the GET succeeded,
\* the response body has been closed, and the output file has been closed
\* if it was opened.
C6_ClosedOnExit ==
  (pc = "exited" /\ bodyState # "none") =>
    /\ bodyState = "closed"
    /\ fileState # "open"

\* t starts with a scheme prefix: letters, then "://"
HasSchemePrefix(t) ==
  \E i \in 2..Len(t) :
    /\ \A j \in 1..(i - 1) : t[j] \in Letters
    /\ HasPrefix(Drop(t, i - 1), <<":", "/", "/">>)

\* C7: normalizeURLTarget returns a target that carries a scheme prefix
\* unchanged, prepends "http://" to one that carries none, and is
\* idempotent.
C7_Normalize ==
  pc = "get" =>
    /\ HasSchemePrefix(urlTarget) => url = urlTarget
    /\ ~HasSchemePrefix(urlTarget) => url = HTTP \o urlTarget
    /\ normalizeURLTarget(url) = url

\* C8: under -s, in every successful run, standard output receives the
\* resource bytes and nothing else (no banner, no diagnostics, no status
\* line, no Finished line), and no output file is created or opened.
C8_StdoutOnlyBytes ==
  (toStdout /\ exitKind \in {"running", "ok"}) =>
    /\ \A i \in 1..Len(stdout) : IsByte(stdout[i])
    /\ Len(StatusLines) = 0
    /\ fileState = "none"
    /\ fs = fsAtCall
    /\ fileName = <<>>
    /\ exitKind = "ok" => StdoutBytes = body

C8_Witness ==
  /\ toStdout
  /\ exitKind = "ok"
  /\ Len(body) > numBytes
  /\ StdoutBytes = body

\* C9: if the other party creates the file while openOutfile is between
\* its existence check and its create, openOutfile fails and the other
\* party's file is not truncated; the name is created by one party only.
C9_ExclusiveCreate ==
  (otherAt # "none" /\ pc \notin {"open_stat", "open_create"}) =>
    /\ exitKind = "fatal"
    /\ fatalSite = 60
    /\ fileState = "none"
    /\ fs[fileName] = File(OtherContent)

\* the writes and in-progress lines of copyContent, in order
CopyTrace == EventsOf({"write", "progress"})
Progress == EventsOf({"progress"})

====
